---- MODULE Spec2Model ----
(***************************************************************************)
(* Model of desktop::DxgiDuplicatorController                              *)
(* (source/desktop/win/dxgi_duplicator_controller.cc).                     *)
(*                                                                         *)
(* Every public operation runs under the controller mutex lock_ and is     *)
(* one atomic action.  release() is two steps: the atomic decrement of     *)
(* refcount_ and, when it reached zero, the later unload() under lock_.    *)
(* Spec runs the operations of one caller that owns one DxgiFrame.         *)
(* The collaborators whose code is outside the controller file (the        *)
(* per-adapter duplicator, the display configuration monitor, the frame,   *)
(* the platform probes) are modelled by their interface contract.          *)
(***************************************************************************)
EXTENDS Integers, Sequences, FiniteSets, TLC

VARIABLES
    duplicators_,                   \* std::vector<DxgiAdapterDuplicator>
    desktop_rect_,                  \* QRect
    identity_,                      \* int, generation counter
    succeeded_duplications_,        \* count of SUCCEEDED captures
    dpi_,                           \* QPoint, both axes share the value here
    d3d_info_,                      \* [min_feature_level, max_feature_level]
    display_configuration_monitor_, \* [initialized, changed]
    refcount_,                      \* std::atomic_int
    holds,                          \* thread -> 1 iff it owns a scoped_refptr
    pc,                             \* thread -> "idle" | "unload"
    context,                        \* the Context of the caller's DxgiFrame
    gen_count,                      \* history: adapter generations constructed
    generations,                    \* history: identity_ of each successful init
    calls,                          \* history: adapter calls of the last operation
    last,                           \* history: the last operation and its result
    warmup,                         \* ensureFrameCaptured() run step by step
    lock_,                          \* std::mutex: the thread that holds it
    thread                          \* thread -> call stack and locals

vars == <<duplicators_, desktop_rect_, identity_, succeeded_duplications_, dpi_,
          d3d_info_, display_configuration_monitor_, refcount_, holds, pc,
          context, gen_count, generations, calls, last, warmup, lock_,
          thread>>

-----------------------------------------------------------------------------
(* Bounds of the model *)

MaxIdentity == 2
MaxSucceeded == 1
Threads == {"t1", "t2"}

(* lock_ when no thread holds it. *)
NoThread == "free"

(* A thread that is in no operation of the controller: no frame on its call
   stack, its locals at their defaults. *)
Outside ==
    [stack |-> <<>>, ret |-> FALSE, zero |-> FALSE, enumerated |-> FALSE,
     monitor_id |-> -1]

(* The threads that run in Spec; the operations are atomic under lock_, so
   one caller shows every sequence of operations. *)
Callers == {"t1"}

(* Requested monitor ids; -1 (entire desktop) is used by duplicate(). *)
MonitorIds == {1, 2}

(* Time one warm-up iteration may take, in milliseconds. *)
Durations == {250}

(* GetDC(nullptr) answers: 0 stands for a failed GetDC, otherwise LOGPIXELS. *)
HdcAnswers == {0, 96}

-----------------------------------------------------------------------------
(* Program constants *)

frames_to_skip == 1
timeout_ms == 500
ms_per_frame == 17

-----------------------------------------------------------------------------
(* QRect / QPoint arithmetic as the controller uses it *)

Rect(x, y, w, h) == [x |-> x, y |-> y, w |-> w, h |-> h]

NullRect == Rect(0, 0, 0, 0)

isEmpty(r) == r.w <= 0 \/ r.h <= 0

isNull(r) == r.w = 0 /\ r.h = 0

Min2(a, b) == IF a <= b THEN a ELSE b

Max2(a, b) == IF a >= b THEN a ELSE b

topLeft(r) == [x |-> r.x, y |-> r.y]

united(a, b) ==
    IF isNull(a) THEN b
    ELSE IF isNull(b) THEN a
    ELSE LET l == Min2(a.x, b.x)
             t == Min2(a.y, b.y)
             r == Max2(a.x + a.w, b.x + b.w)
             d == Max2(a.y + a.h, b.y + b.h)
         IN  Rect(l, t, r - l, d - t)

translated(r, p) == Rect(r.x + p.x, r.y + p.y, r.w, r.h)

RECURSIVE unitedAll(_)
unitedAll(rects) ==
    IF rects = <<>> THEN NullRect
    ELSE united(unitedAll(SubSeq(rects, 1, Len(rects) - 1)), rects[Len(rects)])

-----------------------------------------------------------------------------
(* The graphics devices D3dDevice::enumDevices() can return *)

Device(level, ok, screens) ==
    [feature_level |-> level, init_ok |-> ok, screens |-> screens]

DevLeft == Device(11, TRUE, <<Rect(-1920, 0, 1920, 1080)>>)

DevMain == Device(10, TRUE, <<Rect(0, 0, 1920, 1080)>>)

DevRight == Device(11, TRUE, <<Rect(1920, 0, 1920, 1080), Rect(3840, 0, 1280, 1024)>>)

DevVirtual == Device(12, FALSE, <<>>)

DeviceLists ==
    { <<>>,
      <<DevVirtual>>,
      <<DevLeft, DevMain>>,
      <<DevVirtual, DevRight>> }

-----------------------------------------------------------------------------
(* DxgiAdapterDuplicator, by its interface *)

AdapterDuplicator(inst, dev) ==
    [inst |-> inst,
     desktop_rect |-> unitedAll(dev.screens),
     original_rect |-> unitedAll(dev.screens),
     screens |-> dev.screens,
     frames |-> 0,
     registered |-> FALSE]

adapterTranslateRect(a, p) ==
    [a EXCEPT !.desktop_rect = translated(a.desktop_rect, p),
              !.screens = [i \in DOMAIN a.screens |-> translated(a.screens[i], p)]]

adapterScreenCount(a) == Len(a.screens)

(* setup()/unregister() add the caller's sub-context to, and remove it from,
   the contexts the adapter keeps. *)
adapterSetup(a) == [a EXCEPT !.registered = TRUE]

adapterUnregister(a) == [a EXCEPT !.registered = FALSE]

(* duplicate()/duplicateMonitor(): "fail" returns false, "stale" returns true
   without a new frame, "frame" returns true and counts a captured frame.
   The controller compares numFramesCaptured() with frames_to_skip and with 0
   only, so the count is kept up to frames_to_skip. *)
DuplicateOutcomes == {"fail", "stale", "frame"}

adapterDuplicated(a, outcome) ==
    IF outcome = "frame" /\ a.frames < frames_to_skip
    THEN [a EXCEPT !.frames = a.frames + 1]
    ELSE a

(* A call the controller makes to an adapter: the adapter instance called and
   the instance that had set up the sub-context handed to it. *)
Call(fn, a, sub, idx) == [fn |-> fn, inst |-> a.inst, sub |-> sub.inst, idx |-> idx]

(* A default constructed sub-context belongs to no adapter. *)
NoSubContext == [inst |-> <<0, 0>>]

NewContext == [controller_id |-> 0, contexts |-> <<>>]

-----------------------------------------------------------------------------
(* DisplayConfigurationMonitor, by its interface: isChanged() is true iff the
   display configuration changed since the previous observation; the first
   call after reset() takes the snapshot and answers false. *)

monitorReset(m) == [initialized |-> FALSE, changed |-> FALSE]

monitorIsChanged(m) == m.initialized /\ m.changed

monitorAfterIsChanged(m) == [initialized |-> TRUE, changed |-> FALSE]

-----------------------------------------------------------------------------
(* The controller state the internal helpers work on *)

Controller ==
    [duplicators |-> duplicators_,
     desktop_rect |-> desktop_rect_,
     identity |-> identity_,
     dpi |-> dpi_,
     d3d_info |-> d3d_info_,
     monitor |-> display_configuration_monitor_,
     gen_count |-> gen_count,
     generations |-> generations]

(* deinitialize() that also restarts the generation counter *)
deinitialize_resetsIdentity(c) ==
    [c EXCEPT !.desktop_rect = NullRect,
              !.duplicators = <<>>,
              !.identity = 0,
              !.monitor = monitorReset(c.monitor)]

(* deinitialize() that forgets to clear desktop_rect_ *)
deinitialize_keepsRect(c) ==
    [c EXCEPT !.duplicators = <<>>,
              !.monitor = monitorReset(c.monitor)]

deinitialize(c) ==
    [c EXCEPT !.desktop_rect = NullRect,
              !.duplicators = <<>>,
              !.monitor = monitorReset(c.monitor)]

(* translateRect() that moves desktop_rect_ but not the adapters *)
translateRect_controllerOnly(c) ==
    LET position == [x |-> 0 - c.desktop_rect.x, y |-> 0 - c.desktop_rect.y]
    IN  [c EXCEPT !.desktop_rect = translated(c.desktop_rect, position)]

translateRect(c) ==
    LET position == [x |-> 0 - c.desktop_rect.x, y |-> 0 - c.desktop_rect.y]
    IN  [c EXCEPT !.desktop_rect = translated(c.desktop_rect, position),
                  !.duplicators = [i \in DOMAIN c.duplicators |->
                                      adapterTranslateRect(c.duplicators[i], position)]]

(* The loop with break in place of continue: the first adapter that fails to
   initialize ends the iteration. *)
RECURSIVE initDevices_stopsAtFailure(_, _, _)
initDevices_stopsAtFailure(c, devices, n) ==
    IF n = 0 THEN c
    ELSE LET p == initDevices_stopsAtFailure(c, devices, n - 1)
             dev == devices[n]
             level == dev.feature_level
             maxl == IF p.d3d_info.max_feature_level = 0
                        \/ level > p.d3d_info.max_feature_level
                     THEN level ELSE p.d3d_info.max_feature_level
             minl == IF p.d3d_info.min_feature_level = 0
                        \/ level < p.d3d_info.min_feature_level
                     THEN level ELSE p.d3d_info.min_feature_level
             q == [p EXCEPT !.d3d_info = [min_feature_level |-> minl,
                                          max_feature_level |-> maxl]]
             duplicator == AdapterDuplicator(<<q.gen_count, n>>, dev)
         IN  IF \E k \in 1..(n - 1) : ~devices[k].init_ok THEN p
             ELSE IF ~dev.init_ok THEN q
             ELSE [q EXCEPT !.duplicators = Append(q.duplicators, duplicator),
                            !.desktop_rect = united(q.desktop_rect,
                                                    duplicator.desktop_rect)]

(* The loop of doInitialize over devices[1..n]. *)
RECURSIVE initDevices(_, _, _)
initDevices(c, devices, n) ==
    IF n = 0 THEN c
    ELSE LET p == initDevices(c, devices, n - 1)
             dev == devices[n]
             level == dev.feature_level
             maxl == IF p.d3d_info.max_feature_level = 0
                        \/ level > p.d3d_info.max_feature_level
                     THEN level ELSE p.d3d_info.max_feature_level
             minl == IF p.d3d_info.min_feature_level = 0
                        \/ level < p.d3d_info.min_feature_level
                     THEN level ELSE p.d3d_info.min_feature_level
             q == [p EXCEPT !.d3d_info = [min_feature_level |-> minl,
                                          max_feature_level |-> maxl]]
             duplicator == AdapterDuplicator(<<q.gen_count, n>>, dev)
         IN  IF ~dev.init_ok THEN q
             ELSE [q EXCEPT !.duplicators = Append(q.duplicators, duplicator),
                            !.desktop_rect = united(q.desktop_rect,
                                                    duplicator.desktop_rect)]

(* doInitialize() without ++identity_ *)
doInitialize_noIdentityBump(c, devices, hdc) ==
    LET c0 == [c EXCEPT !.d3d_info = [min_feature_level |-> 0,
                                      max_feature_level |-> 0],
                        !.gen_count = IF devices = <<>> THEN c.gen_count
                                      ELSE c.gen_count + 1]
    IN  IF devices = <<>> THEN [ok |-> FALSE, c |-> c0]
        ELSE LET c1 == translateRect(initDevices(c0, devices, Len(devices)))
                 c2 == IF hdc # 0 THEN [c1 EXCEPT !.dpi = hdc] ELSE c1
                 ok == c2.duplicators # <<>>
                 c4 == IF ok
                       THEN [c2 EXCEPT !.generations = Append(c2.generations,
                                                              c2.identity)]
                       ELSE c2
             IN  [ok |-> ok, c |-> c4]

(* doInitialize() that stores the answer of a failed DPI query as well *)
doInitialize_storesFailedDpi(c, devices, hdc) ==
    LET c0 == [c EXCEPT !.d3d_info = [min_feature_level |-> 0,
                                      max_feature_level |-> 0],
                        !.gen_count = IF devices = <<>> THEN c.gen_count
                                      ELSE c.gen_count + 1]
    IN  IF devices = <<>> THEN [ok |-> FALSE, c |-> c0]
        ELSE LET c1 == translateRect(initDevices(c0, devices, Len(devices)))
                 c2 == [c1 EXCEPT !.dpi = hdc]
                 c3 == [c2 EXCEPT !.identity = c2.identity + 1]
                 ok == c3.duplicators # <<>>
                 c4 == IF ok
                       THEN [c3 EXCEPT !.generations = Append(c3.generations,
                                                              c3.identity)]
                       ELSE c3
             IN  [ok |-> ok, c |-> c4]

(* doInitialize(): [ok, c] *)
doInitialize(c, devices, hdc) ==
    LET c0 == [c EXCEPT !.d3d_info = [min_feature_level |-> 0,
                                      max_feature_level |-> 0],
                        !.gen_count = IF devices = <<>> THEN c.gen_count
                                      ELSE c.gen_count + 1]
    IN  IF devices = <<>> THEN [ok |-> FALSE, c |-> c0]
        ELSE LET c1 == translateRect(initDevices(c0, devices, Len(devices)))
                 c2 == IF hdc # 0 THEN [c1 EXCEPT !.dpi = hdc] ELSE c1
                 c3 == [c2 EXCEPT !.identity = c2.identity + 1]
                 ok == c3.duplicators # <<>>
                 c4 == IF ok
                       THEN [c3 EXCEPT !.generations = Append(c3.generations,
                                                              c3.identity)]
                       ELSE c3
             IN  [ok |-> ok, c |-> c4]

(* initialize(): [ok, ran, c]; ran tells whether doInitialize was attempted *)
initialize(c, devices, hdc) ==
    IF c.duplicators # <<>> THEN [ok |-> TRUE, ran |-> FALSE, c |-> c]
    ELSE LET r == doInitialize(c, devices, hdc)
         IN  IF r.ok THEN [ok |-> TRUE, ran |-> TRUE, c |-> r.c]
             ELSE [ok |-> FALSE, ran |-> TRUE, c |-> deinitialize(r.c)]

-----------------------------------------------------------------------------
(* Context handling *)

(* contextExpired() that compares the sizes only *)
contextExpired_sizeOnly(ctx, c) ==
    Len(ctx.contexts) # Len(c.duplicators)

contextExpired(ctx, c) ==
    \/ ctx.controller_id # c.identity
    \/ Len(ctx.contexts) # Len(c.duplicators)

(* contexts[i] as the code reads it; an index outside the vector reads
   memory that belongs to no adapter. *)
subContextAt(ctx, i) ==
    IF i \in DOMAIN ctx.contexts THEN ctx.contexts[i] ELSE [inst |-> <<-1, i>>]

(* The work record of a capture: adapters, the caller's Context, the adapter
   calls made so far and what went wrong. *)
Work(c, ctx) ==
    [ok |-> TRUE, dups |-> c.duplicators, ctx |-> ctx, calls |-> <<>>,
     adapter_failed |-> FALSE, timed_out |-> FALSE, top_left |-> "unset",
     warmed |-> FALSE, warm_calls |-> 0, warm_frames |-> <<>>]

setup(w, c) ==
    IF contextExpired(w.ctx, c)
    THEN LET n == Len(w.dups)
         IN  [w EXCEPT
                !.ctx = [controller_id |-> c.identity,
                         contexts |-> [i \in 1..n |-> [inst |-> w.dups[i].inst]]],
                !.dups = [i \in 1..n |-> adapterSetup(w.dups[i])],
                !.calls = w.calls \o [i \in 1..n |->
                                         Call("setup", w.dups[i], NoSubContext, -1)]]
    ELSE w

(* doDuplicateAll() from adapter i on: the set of possible outcomes. *)
RECURSIVE doDuplicateAllFrom(_, _)
doDuplicateAllFrom(w, i) ==
    IF i > Len(w.dups) THEN {[w EXCEPT !.ok = TRUE]}
    ELSE UNION {
           LET called == [w EXCEPT
                            !.calls = Append(w.calls,
                                             Call("duplicate", w.dups[i],
                                                  subContextAt(w.ctx, i), -1)),
                            !.dups[i] = adapterDuplicated(w.dups[i], o)]
           IN  IF o = "fail"
               THEN {[called EXCEPT !.ok = FALSE, !.adapter_failed = TRUE]}
               ELSE doDuplicateAllFrom(called, i + 1)
           : o \in DuplicateOutcomes }

doDuplicateAll(w) == doDuplicateAllFrom(w, 1)

(* The loop that moves on to the next adapter without subtracting the
   monitors of the one it skips. *)
RECURSIVE doDuplicateOneFrom_noSubtract(_, _, _)
doDuplicateOneFrom_noSubtract(w, monitor_id, i) ==
    IF ~(i <= Len(w.dups) /\ i <= Len(w.ctx.contexts))
    THEN {[w EXCEPT !.ok = FALSE]}
    ELSE IF monitor_id >= adapterScreenCount(w.dups[i])
    THEN doDuplicateOneFrom_noSubtract(w, monitor_id, i + 1)
    ELSE { LET called == [w EXCEPT
                            !.calls = Append(w.calls,
                                             Call("duplicateMonitor", w.dups[i],
                                                  subContextAt(w.ctx, i),
                                                  monitor_id)),
                            !.dups[i] = adapterDuplicated(w.dups[i], o)]
           IN  IF o = "fail"
               THEN [called EXCEPT !.ok = FALSE, !.adapter_failed = TRUE]
               ELSE [called EXCEPT !.ok = TRUE,
                                   !.top_left =
                                       topLeft(w.dups[i].screens[monitor_id + 1])]
           : o \in DuplicateOutcomes }

(* The loop of doDuplicateOne() from adapter i on. *)
RECURSIVE doDuplicateOneFrom(_, _, _)
doDuplicateOneFrom(w, monitor_id, i) ==
    IF ~(i <= Len(w.dups) /\ i <= Len(w.ctx.contexts))
    THEN {[w EXCEPT !.ok = FALSE]}
    ELSE IF monitor_id >= adapterScreenCount(w.dups[i])
    THEN doDuplicateOneFrom(w, monitor_id - adapterScreenCount(w.dups[i]), i + 1)
    ELSE { LET called == [w EXCEPT
                            !.calls = Append(w.calls,
                                             Call("duplicateMonitor", w.dups[i],
                                                  subContextAt(w.ctx, i),
                                                  monitor_id)),
                            !.dups[i] = adapterDuplicated(w.dups[i], o)]
           IN  IF o = "fail"
               THEN [called EXCEPT !.ok = FALSE, !.adapter_failed = TRUE]
               ELSE [called EXCEPT !.ok = TRUE,
                                   !.top_left =
                                       topLeft(w.dups[i].screens[monitor_id + 1])]
           : o \in DuplicateOutcomes }

doDuplicateOne(w, monitor_id) == doDuplicateOneFrom(w, monitor_id, 1)

(* std::numeric_limits<int64_t>::max(), the minimum over no adapters; any
   value above frames_to_skip behaves alike. *)
NoAdaptersFrames == 2147483647

(* The largest count over the adapters in place of the smallest *)
RECURSIVE minFrames_max(_, _)
minFrames_max(dups, n) ==
    IF n = 0 THEN 0
    ELSE Max2(minFrames_max(dups, n - 1), dups[n].frames)

RECURSIVE minFrames(_, _)
minFrames(dups, n) ==
    IF n = 0 THEN NoAdaptersFrames
    ELSE Min2(minFrames(dups, n - 1), dups[n].frames)

numFramesCaptured(dups) == minFrames(dups, Len(dups))

(* The deadline measured from the start of the last frame *)
deadlinePassed_sinceLastFrame(elapsed, round) == round > timeout_ms

(* Clock::now() - start_ms > timeout_ms, tested after a round of
   doDuplicateAll() that took the time round. *)
deadlinePassed(elapsed, round) == elapsed > timeout_ms

(* The while loop of ensureFrameCaptured(); elapsed is Clock::now() - start_ms.
   The sleep_for() sits under numFramesCaptured() > 0 inside a loop that runs
   while numFramesCaptured() < frames_to_skip = 1, so it is never reached. *)
RECURSIVE warmUpLoop(_, _)
warmUpLoop(w, elapsed) ==
    IF ~(numFramesCaptured(w.dups) < frames_to_skip) THEN {[w EXCEPT !.ok = TRUE]}
    ELSE UNION {
           IF ~r.ok THEN {r}
           ELSE UNION {
                  IF deadlinePassed(elapsed + d, d)
                  THEN {[r EXCEPT !.ok = FALSE, !.timed_out = TRUE]}
                  ELSE warmUpLoop(r, elapsed + d)
                  : d \in Durations }
           : r \in doDuplicateAll(w) }

ensureFrameCaptured(w) ==
    IF numFramesCaptured(w.dups) >= frames_to_skip THEN {[w EXCEPT !.ok = TRUE]}
    ELSE warmUpLoop(w, 0)

(* History of a capture whose ensureFrameCaptured() returned true: the
   adapter calls made up to then and the frames each adapter had captured. *)
Warmed(e) ==
    [e EXCEPT !.warmed = TRUE,
              !.warm_calls = Len(e.calls),
              !.warm_frames = [i \in DOMAIN e.dups |-> e.dups[i].frames]]

(* doDuplicateUnlocked() that goes on to the capture after a failed
   ensureFrameCaptured() *)
doDuplicateUnlocked_ignoresWarmUp(c, ctx, monitor_id) ==
    UNION {
      LET f == IF e.ok THEN Warmed(e) ELSE e
      IN  IF monitor_id < 0 THEN doDuplicateAll(f)
          ELSE doDuplicateOne(f, monitor_id)
      : e \in ensureFrameCaptured(setup(Work(c, ctx), c)) }

doDuplicateUnlocked(c, ctx, monitor_id) ==
    UNION {
      IF ~e.ok THEN {e}
      ELSE IF monitor_id < 0 THEN doDuplicateAll(Warmed(e))
      ELSE doDuplicateOne(Warmed(e), monitor_id)
      : e \in ensureFrameCaptured(setup(Work(c, ctx), c)) }

RECURSIVE sumScreens(_, _)
sumScreens(dups, n) ==
    IF n = 0 THEN 0 ELSE sumScreens(dups, n - 1) + adapterScreenCount(dups[n])

screenCountUnlocked(dups) == sumScreens(dups, Len(dups))

RECURSIVE screenRectFrom(_, _, _)
screenRectFrom(dups, id, i) ==
    IF i > Len(dups) THEN NullRect
    ELSE IF id >= adapterScreenCount(dups[i])
    THEN screenRectFrom(dups, id - adapterScreenCount(dups[i]), i + 1)
    ELSE dups[i].screens[id + 1]

screenRect(dups, id) == screenRectFrom(dups, id, 1)

selectedDesktopSize(c, monitor_id) ==
    IF monitor_id < 0 THEN <<c.desktop_rect.w, c.desktop_rect.h>>
    ELSE <<screenRect(c.duplicators, monitor_id).w,
           screenRect(c.duplicators, monitor_id).h>>

(* One name for each adapter instead of one for each of its monitors *)
RECURSIVE deviceNamesFrom_oneEach(_, _)
deviceNamesFrom_oneEach(dups, n) ==
    IF n = 0 THEN <<>>
    ELSE deviceNamesFrom_oneEach(dups, n - 1) \o << <<dups[n].inst, 0>> >>

(* deviceNamesUnlocked() over adapters 1..n, the output list empty at first;
   <<adapter, i>> stands for duplicator.deviceName(i). *)
RECURSIVE deviceNamesFrom(_, _)
deviceNamesFrom(dups, n) ==
    IF n = 0 THEN <<>>
    ELSE deviceNamesFrom(dups, n - 1)
         \o [i \in 1..adapterScreenCount(dups[n]) |-> <<dups[n].inst, i - 1>>]

deviceNamesUnlocked(dups) == deviceNamesFrom(dups, Len(dups))

-----------------------------------------------------------------------------
(* doDuplicate(), public operations and the environment *)

(* The poll without the deinitialize() *)
pollDisplayChange_keepsAdapters(c) ==
    [c EXCEPT !.monitor = monitorAfterIsChanged(c.monitor)]

(* The display-change poll at the top of doDuplicate(). *)
pollDisplayChange(c) ==
    LET polled == [c EXCEPT !.monitor = monitorAfterIsChanged(c.monitor)]
    IN  IF monitorIsChanged(c.monitor) THEN deinitialize(polled) ELSE polled

(* The session probe consulted on every initialization failure *)
initFailureResult_ignoresCount(succeeded, session) ==
    IF ~session THEN "UnsupportedSession"
    ELSE "InitializationFailed"

(* Result of doDuplicate() when initialize() failed. *)
initFailureResult(succeeded, session) ==
    IF succeeded = 0 /\ ~session THEN "UnsupportedSession"
    ELSE "InitializationFailed"

(* Every attempt that reached doDuplicateUnlocked() is counted *)
countDuplication_everyAttempt(succeeded, ok) == succeeded + 1

(* succeeded_duplications_ after doDuplicateUnlocked() returned ok. *)
countDuplication(succeeded, ok) == IF ok THEN succeeded + 1 ELSE succeeded

(* monitor_id compared with > instead of >= *)
duplicateResult_offByOne(ok, monitor_id, dups) ==
    IF ok THEN "Succeeded"
    ELSE IF monitor_id > screenCountUnlocked(dups) THEN "InvalidMonitorId"
    ELSE "DuplicationFailed"

(* Result of doDuplicate() after doDuplicateUnlocked() returned. *)
duplicateResult(ok, monitor_id, dups) ==
    IF ok THEN "Succeeded"
    ELSE IF monitor_id >= screenCountUnlocked(dups) THEN "InvalidMonitorId"
    ELSE "DuplicationFailed"

(* unregister() without the contextExpired() return *)
unregister_noExpiryCheck(c, ctx) ==
    [dups |-> [i \in DOMAIN c.duplicators |->
                  adapterUnregister(c.duplicators[i])],
     calls |-> [i \in DOMAIN c.duplicators |->
                   Call("unregister", c.duplicators[i],
                        subContextAt(ctx, i), -1)]]

(* unregister(): [dups, calls] *)
unregister(c, ctx) ==
    IF contextExpired(ctx, c) THEN [dups |-> c.duplicators, calls |-> <<>>]
    ELSE [dups |-> [i \in DOMAIN c.duplicators |->
                       adapterUnregister(c.duplicators[i])],
          calls |-> [i \in DOMAIN c.duplicators |->
                        Call("unregister", c.duplicators[i],
                             subContextAt(ctx, i), -1)]]

(* GetDC(nullptr) was not called. *)
NoHdc == -1

(* The outcome r of initialize() together with the answers the platform gave
   it: the devices that D3dDevice::enumDevices() returned and what
   GetDC(nullptr) answered, NoHdc when the call did not get that far. *)
initAnswer(r, devices, hdc) ==
    [ok |-> r.ok, ran |-> r.ran, c |-> r.c,
     devices |-> IF r.ran THEN devices ELSE <<>>,
     hdc |-> IF r.ran /\ devices # <<>> THEN hdc ELSE NoHdc]

initAttempt(c, devices, hdc) ==
    initAnswer(initialize(c, devices, hdc), devices, hdc)

(* A failed frame->prepare() that gives the adapters up *)
framePrepareFailed_tearsDown(c) == deinitialize(c)

(* The controller after frame->prepare() returned false: doDuplicate() returns
   FRAME_PREPARE_FAILED at once. *)
framePrepareFailed(c) == c

(* What initialize() can do in state c, over the answers of the platform. *)
InitResults(c) ==
    IF c.duplicators # <<>> THEN {initAttempt(c, <<>>, 0)}
    ELSE {initAttempt(c, devices, hdc) : devices \in DeviceLists, hdc \in HdcAnswers}

Commit(c) ==
    /\ duplicators_' = c.duplicators
    /\ desktop_rect_' = c.desktop_rect
    /\ identity_' = c.identity
    /\ dpi_' = c.dpi
    /\ d3d_info_' = c.d3d_info
    /\ display_configuration_monitor_' = c.monitor
    /\ gen_count' = c.gen_count
    /\ generations' = c.generations

Last(op, result) ==
    [op |-> op, result |-> result, monitor_id |-> -1,
     changed |-> FALSE, init |-> "none", devices |-> <<>>, hdc |-> NoHdc,
     session |-> TRUE, prepared |-> FALSE,
     adapter_failed |-> FALSE, timed_out |-> FALSE, top_left |-> "unset",
     warm_entry |-> FALSE, warmed |-> FALSE, warm_calls |-> 0,
     warm_frames |-> <<>>, layout |-> <<>>]

(* History of a capture: the adapters it worked on and their monitors. *)
Layout(dups) ==
    [i \in DOMAIN dups |-> [inst |-> dups[i].inst, screens |-> dups[i].screens]]

(* Thread t owns a reference and is not inside release(). *)
CanCall(t) == pc[t] = "idle" /\ holds[t] > 0

(* Public operations are called through a scoped_refptr by some thread. *)
Called == \E t \in Threads : CanCall(t)

Init ==
    /\ duplicators_ = <<>>
    /\ desktop_rect_ = NullRect
    /\ identity_ = 0
    /\ succeeded_duplications_ = 0
    /\ dpi_ = 0
    /\ d3d_info_ = [min_feature_level |-> 0, max_feature_level |-> 0]
    /\ display_configuration_monitor_ = [initialized |-> FALSE, changed |-> FALSE]
    /\ refcount_ = 0
    /\ holds = [t \in Threads |-> 0]
    /\ pc = [t \in Threads |-> "idle"]
    /\ context = NewContext
    /\ gen_count = 0
    /\ generations = <<>>
    /\ calls = <<>>
    /\ last = Last("none", "none")
    /\ warmup = [pc |-> "idle"]
    /\ lock_ = NoThread
    /\ thread = [t \in Threads |-> Outside]

DoDuplicate(op, monitor_id) ==
    /\ UNCHANGED <<warmup, lock_, thread>>
    /\ Called
    /\ LET changed == monitorIsChanged(display_configuration_monitor_)
       IN
       \E r \in InitResults(pollDisplayChange(Controller)) :
         /\ r.c.identity <= MaxIdentity
         /\ LET base == [Last(op, "none") EXCEPT
                            !.monitor_id = monitor_id,
                            !.changed = changed,
                            !.init = IF ~r.ran THEN "none"
                                     ELSE IF r.ok THEN "ok" ELSE "failed",
                            !.devices = r.devices,
                            !.hdc = r.hdc]
            IN
            IF ~r.ok
            THEN \E session \in BOOLEAN :
                 /\ Commit(r.c)
                 /\ last' = [base EXCEPT
                               !.session = session,
                               !.result = initFailureResult(
                                              succeeded_duplications_, session)]
                 /\ calls' = <<>>
                 /\ UNCHANGED <<succeeded_duplications_, context>>
            ELSE \E prepared \in BOOLEAN :
                   IF ~prepared
                   THEN /\ Commit(framePrepareFailed(r.c))
                        /\ last' = [base EXCEPT !.result = "FramePreparationFailed"]
                        /\ calls' = <<>>
                        /\ UNCHANGED <<succeeded_duplications_, context>>
                   ELSE \E d \in doDuplicateUnlocked(r.c, context, monitor_id) :
                          LET c3 == [r.c EXCEPT !.duplicators = d.dups]
                              result == duplicateResult(d.ok, monitor_id, d.dups)
                          IN  /\ succeeded_duplications_' =
                                    countDuplication(succeeded_duplications_, d.ok)
                              /\ succeeded_duplications_' <= MaxSucceeded
                              /\ Commit(IF result = "DuplicationFailed"
                                        THEN deinitialize(c3) ELSE c3)
                              /\ context' = d.ctx
                              /\ calls' = d.calls
                              /\ last' = [base EXCEPT
                                            !.result = result,
                                            !.prepared = TRUE,
                                            !.adapter_failed = d.adapter_failed,
                                            !.timed_out = d.timed_out,
                                            !.top_left = d.top_left,
                                            !.warm_entry =
                                                \A i \in DOMAIN r.c.duplicators :
                                                   r.c.duplicators[i].frames
                                                       >= frames_to_skip,
                                            !.warmed = d.warmed,
                                            !.warm_calls = d.warm_calls,
                                            !.warm_frames = d.warm_frames,
                                            !.layout = Layout(d.dups)]
    /\ UNCHANGED <<refcount_, holds, pc>>

Duplicate == DoDuplicate("duplicate", -1)

DuplicateMonitor ==
    \E monitor_id \in MonitorIds : DoDuplicate("duplicateMonitor", monitor_id)

isSupportedResult(ok, c) == ok

retrieveD3dInfoResult(ok, c) == [ok |-> ok, info |-> c.d3d_info]

dpiResult(ok, c) == IF ok THEN c.dpi ELSE 0

screenCountResult(ok, c) == IF ok THEN screenCountUnlocked(c.duplicators) ELSE 0

deviceNamesResult(ok, c) ==
    [ok |-> ok, names |-> IF ok THEN deviceNamesUnlocked(c.duplicators) ELSE <<>>]

queryResult(op, ok, c) ==
    CASE op = "isSupported" -> isSupportedResult(ok, c)
      [] op = "retrieveD3dInfo" -> retrieveD3dInfoResult(ok, c)
      [] op = "dpi" -> dpiResult(ok, c)
      [] op = "screenCount" -> screenCountResult(ok, c)
      [] op = "deviceNames" -> deviceNamesResult(ok, c)

(* The operations that only initialize() and read. *)
Query(op) ==
    /\ UNCHANGED <<warmup, lock_, thread>>
    /\ Called
    /\ \E r \in InitResults(Controller) :
         /\ r.c.identity <= MaxIdentity
         /\ Commit(r.c)
         /\ last' = [Last(op, queryResult(op, r.ok, r.c)) EXCEPT
                        !.init = IF ~r.ran THEN "none"
                                 ELSE IF r.ok THEN "ok" ELSE "failed",
                        !.devices = r.devices,
                        !.hdc = r.hdc]
    /\ calls' = <<>>
    /\ UNCHANGED <<succeeded_duplications_, refcount_, holds, pc, context>>

IsSupported == Query("isSupported")

RetrieveD3dInfo == Query("retrieveD3dInfo")

Dpi == Query("dpi")

ScreenCount == Query("screenCount")

DeviceNames == Query("deviceNames")

Unregister ==
    /\ UNCHANGED <<warmup, lock_, thread>>
    /\ Called
    /\ LET u == unregister(Controller, context)
       IN  /\ duplicators_' = u.dups
           /\ calls' = u.calls
    /\ last' = Last("unregister", "none")
    /\ UNCHANGED <<desktop_rect_, identity_, succeeded_duplications_, dpi_,
                   d3d_info_, display_configuration_monitor_, refcount_, holds,
                   pc, context, gen_count, generations>>

Unload ==
    /\ UNCHANGED <<warmup, lock_, thread>>
    /\ Called
    /\ Commit(deinitialize(Controller))
    /\ calls' = <<>>
    /\ last' = Last("unload", "none")
    /\ UNCHANGED <<succeeded_duplications_, refcount_, holds, pc, context>>

AddRef(t) ==
    /\ UNCHANGED <<warmup, lock_, thread>>
    /\ pc[t] = "idle"
    /\ holds[t] = 0
    /\ refcount_' = refcount_ + 1
    /\ holds' = [holds EXCEPT ![t] = holds[t] + 1]
    /\ calls' = <<>>
    /\ last' = Last("addRef", "none")
    /\ UNCHANGED <<duplicators_, desktop_rect_, identity_, succeeded_duplications_,
                   dpi_, d3d_info_, display_configuration_monitor_, pc, context,
                   gen_count, generations>>

(* release(): the atomic decrement; unload() follows when it reached zero. *)
Release(t) ==
    /\ UNCHANGED <<warmup, lock_, thread>>
    /\ CanCall(t)
    /\ refcount_' = refcount_ - 1
    /\ holds' = [holds EXCEPT ![t] = holds[t] - 1]
    /\ pc' = [pc EXCEPT ![t] = IF refcount_' = 0 THEN "unload" ELSE "idle"]
    /\ calls' = <<>>
    /\ last' = Last("release", "none")
    /\ UNCHANGED <<duplicators_, desktop_rect_, identity_, succeeded_duplications_,
                   dpi_, d3d_info_, display_configuration_monitor_, context,
                   gen_count, generations>>

(* release(): the unload() of the thread that took refcount_ to zero. *)
ReleaseUnload(t) ==
    /\ UNCHANGED <<warmup, lock_, thread>>
    /\ pc[t] = "unload"
    /\ Commit(deinitialize(Controller))
    /\ pc' = [pc EXCEPT ![t] = "idle"]
    /\ calls' = <<>>
    /\ last' = Last("releaseUnload", "none")
    /\ UNCHANGED <<succeeded_duplications_, refcount_, holds, context>>

(* Environment: the display configuration changes. *)
DisplayChange ==
    /\ UNCHANGED <<warmup, lock_, thread>>
    /\ display_configuration_monitor_.initialized
    /\ ~display_configuration_monitor_.changed
    /\ display_configuration_monitor_' =
           [display_configuration_monitor_ EXCEPT !.changed = TRUE]
    /\ calls' = <<>>
    /\ last' = Last("env", "none")
    /\ UNCHANGED <<duplicators_, desktop_rect_, identity_, succeeded_duplications_,
                   dpi_, d3d_info_, refcount_, holds, pc, context, gen_count,
                   generations>>

Next ==
    \/ Duplicate
    \/ DuplicateMonitor
    \/ IsSupported
    \/ RetrieveD3dInfo
    \/ Dpi
    \/ ScreenCount
    \/ DeviceNames
    \/ Unregister
    \/ Unload
    \/ \E t \in Callers : AddRef(t)
    \/ \E t \in Callers : Release(t)
    \/ \E t \in Callers : ReleaseUnload(t)
    \/ DisplayChange

Spec == Init /\ [][Next]_vars

-----------------------------------------------------------------------------
(* ensureFrameCaptured() step by step: one step for the test at its entry,
   one for each round of the while loop, one for leaving the loop.  The
   controller is initialized, some adapters may have captured a frame in
   earlier calls, and the caller's Context has been set up. *)

(* Time one round of the loop may take, in milliseconds; the clock advances. *)
RoundDurations == {100, 250}

(* std::this_thread::sleep_for(d) sleeps the time d, not at all when d <= 0. *)
sleepFor(d) == Max2(0, d)

(* The controller right after construction. *)
NewController ==
    [duplicators |-> <<>>,
     desktop_rect |-> NullRect,
     identity |-> 0,
     dpi |-> 0,
     d3d_info |-> [min_feature_level |-> 0, max_feature_level |-> 0],
     monitor |-> [initialized |-> FALSE, changed |-> FALSE],
     gen_count |-> 0,
     generations |-> <<>>]

(* The initialized controllers ensureFrameCaptured() can be entered with. *)
WarmUpControllers ==
    UNION {
      LET c == doInitialize(NewController, devices, 96).c
      IN  { [c EXCEPT !.duplicators =
                        [i \in DOMAIN c.duplicators |->
                            [c.duplicators[i] EXCEPT !.frames = frames[i]]]]
            : frames \in [DOMAIN c.duplicators -> 0..frames_to_skip] }
      : devices \in {d \in DeviceLists : \E n \in DOMAIN d : d[n].init_ok} }

InitWarmUp ==
    \E c \in WarmUpControllers :
      /\ duplicators_ = c.duplicators
      /\ desktop_rect_ = c.desktop_rect
      /\ identity_ = c.identity
      /\ succeeded_duplications_ = 0
      /\ dpi_ = c.dpi
      /\ d3d_info_ = c.d3d_info
      /\ display_configuration_monitor_ = [initialized |-> TRUE, changed |-> FALSE]
      /\ refcount_ = 1
      /\ holds = [t \in Threads |-> IF t \in Callers THEN 1 ELSE 0]
      /\ pc = [t \in Threads |-> "idle"]
      /\ context = NewContext
      /\ gen_count = c.gen_count
      /\ generations = c.generations
      /\ calls = <<>>
      /\ last = Last("none", "none")
      /\ warmup = [pc |-> "entry",
                   w |-> setup(Work(c, NewContext), c),
                   elapsed |-> 0,
                   round |-> 0,
                   rounds |-> 0,
                   sleeps |-> <<>>]
      /\ lock_ = NoThread
      /\ thread = [t \in Threads |-> Outside]

WarmUpUnchanged ==
    UNCHANGED <<desktop_rect_, identity_, succeeded_duplications_, dpi_, d3d_info_,
                display_configuration_monitor_, refcount_, holds, pc, context,
                gen_count, generations, last, lock_, thread>>

(* ensureFrameCaptured() returns w.ok. *)
WarmUpReturn(w) ==
    /\ warmup' = [warmup EXCEPT !.pc = "returned", !.w = w]
    /\ duplicators_' = w.dups
    /\ calls' = w.calls

(* if (numFramesCaptured() >= frames_to_skip) return true; start_ms = now. *)
WarmUpEnter ==
    /\ warmup.pc = "entry"
    /\ IF numFramesCaptured(warmup.w.dups) >= frames_to_skip
       THEN WarmUpReturn([warmup.w EXCEPT !.ok = TRUE])
       ELSE /\ warmup' = [warmup EXCEPT !.pc = "loop"]
            /\ UNCHANGED <<duplicators_, calls>>
    /\ WarmUpUnchanged

(* One round of the loop: the sleep when a frame was captured before, then
   doDuplicateAll(), then the deadline test. *)
WarmUpRound ==
    /\ warmup.pc = "loop"
    /\ numFramesCaptured(warmup.w.dups) < frames_to_skip
    /\ \E r \in doDuplicateAll(warmup.w), d \in RoundDurations :
         LET slept == IF numFramesCaptured(warmup.w.dups) > 0
                      THEN <<sleepFor(ms_per_frame - warmup.round)>>
                      ELSE <<>>
             now == warmup.elapsed + d
             timed == [warmup EXCEPT !.elapsed = now,
                                     !.round = d,
                                     !.rounds = warmup.rounds + 1,
                                     !.sleeps = warmup.sleeps \o slept]
         IN  IF ~r.ok
             THEN /\ warmup' = [timed EXCEPT !.pc = "returned", !.w = r]
                  /\ duplicators_' = r.dups
                  /\ calls' = r.calls
             ELSE IF deadlinePassed(now, d)
             THEN /\ warmup' = [timed EXCEPT
                                  !.pc = "returned",
                                  !.w = [r EXCEPT !.ok = FALSE,
                                                  !.timed_out = TRUE]]
                  /\ duplicators_' = r.dups
                  /\ calls' = r.calls
             ELSE /\ warmup' = [timed EXCEPT !.w = r]
                  /\ UNCHANGED <<duplicators_, calls>>
    /\ WarmUpUnchanged

(* The loop condition is false: return true. *)
WarmUpExit ==
    /\ warmup.pc = "loop"
    /\ ~(numFramesCaptured(warmup.w.dups) < frames_to_skip)
    /\ WarmUpReturn([warmup.w EXCEPT !.ok = TRUE])
    /\ WarmUpUnchanged

NextWarmUp ==
    \/ WarmUpEnter
    \/ WarmUpRound
    \/ WarmUpExit

(* The thread inside ensureFrameCaptured() keeps running. *)
SpecWarmUp == InitWarmUp /\ [][NextWarmUp]_vars /\ WF_vars(NextWarmUp)

-----------------------------------------------------------------------------
(* The threads of the process calling the controller at the same time.  Every
   function of the controller is a list of instructions; a thread runs its
   call stack one instruction at a time, and the threads interleave after
   every instruction.  std::scoped_lock lock(lock_) at the top of a function
   blocks until no thread holds lock_ and releases it when the function
   returns. *)

(* What enumDevices() and GetDC() answer while the threads race: no device
   or one usable adapter, and a device context. *)
RaceDeviceLists == {<<>>, <<DevMain>>}

RaceHdcAnswers == {96}

(* The monitor duplicateMonitor() is asked for while the threads race: one
   that DevMain does not have. *)
RaceMonitorIds == {1}

(* The public operations a thread may call. *)
PublicOps ==
    {"addRef", "release", "isSupported", "retrieveD3dInfo", "dpi", "screenCount",
     "deviceNames", "duplicate", "duplicateMonitor", "unload", "unregister"}

(* The functions whose first statement is std::scoped_lock lock(lock_),
   deinitialize() among them *)
Acquires_deinitialize(fn) ==
    fn \in {"isSupported", "retrieveD3dInfo", "dpi", "screenCount", "deviceNames",
            "doDuplicate", "unload", "unregister", "deinitialize"}

(* The functions whose first statement is std::scoped_lock lock(lock_). *)
Acquires(fn) ==
    fn \in {"isSupported", "retrieveD3dInfo", "dpi", "screenCount", "deviceNames",
            "doDuplicate", "unload", "unregister"}

(* The members among duplicators_, desktop_rect_, identity_ and
   succeeded_duplications_ that the statements of a function read or write. *)
Accesses(fn) ==
    CASE fn \in {"initialize", "unregister", "doDuplicateAll", "doDuplicateOne",
                 "numFramesCaptured", "screenRect", "screenCountUnlocked",
                 "deviceNamesUnlocked"} -> {"duplicators_"}
      [] fn = "doInitialize" -> {"duplicators_", "desktop_rect_", "identity_"}
      [] fn \in {"deinitialize", "translateRect"} ->
             {"duplicators_", "desktop_rect_"}
      [] fn \in {"contextExpired", "setup"} -> {"duplicators_", "identity_"}
      [] fn = "desktopSize" -> {"desktop_rect_"}
      [] fn = "doDuplicate" -> {"succeeded_duplications_"}
      [] OTHER -> {}

(* Instructions: a call of a member function, statements of the function
   itself, a return; each is executed when its condition w holds. *)
Calls(fn, w) == [k |-> "call", a |-> fn, w |-> w]

Runs(a, w) == [k |-> "do", a |-> a, w |-> w]

Returns(w) == [k |-> "return", a |-> "none", w |-> w]

(* The statements of each function after its lock, in the order of the
   source.  A function returns after its last instruction.  What the capture
   helpers below doDuplicateUnlocked() do to the adapters is applied in one
   instruction when they have returned ("doDuplicateUnlocked"); their frames
   read the adapters ("touch") and are entered whatever the helper before
   them answered.  The display configuration may have changed
   at any time before isChanged() looks ("isChanged"). *)
Body(fn) ==
    CASE fn = "addRef" -> <<Runs("incref", "always")>>
      [] fn = "release" -> <<Runs("decref", "always"), Calls("unload", "zero")>>
      [] fn = "isSupported" -> <<Calls("initialize", "always")>>
      [] fn = "retrieveD3dInfo" ->
             <<Calls("initialize", "always"), Runs("touch", "always")>>
      [] fn = "dpi" -> <<Calls("initialize", "always"), Runs("touch", "ok")>>
      [] fn = "screenCount" ->
             <<Calls("initialize", "always"), Calls("screenCountUnlocked", "ok")>>
      [] fn = "deviceNames" ->
             <<Calls("initialize", "always"), Calls("deviceNamesUnlocked", "ok")>>
      [] fn \in {"duplicate", "duplicateMonitor"} ->
             <<Calls("doDuplicate", "always")>>
      [] fn = "doDuplicate" ->
             <<Runs("isChanged", "always"),
               Calls("deinitialize", "ok"),
               Calls("initialize", "always"),
               Runs("touch", "failed"),
               Returns("failed"),
               Calls("selectedDesktopSize", "always"),
               Runs("prepare", "always"),
               Returns("failed"),
               Calls("doDuplicateUnlocked", "always"),
               Runs("count", "ok"),
               Returns("ok"),
               Calls("screenCountUnlocked", "always"),
               Runs("invalid", "always"),
               Returns("ok"),
               Calls("deinitialize", "always")>>
      [] fn = "unload" -> <<Calls("deinitialize", "always")>>
      [] fn = "unregister" ->
             <<Calls("contextExpired", "always"),
               Returns("ok"),
               Runs("unregister", "always")>>
      [] fn = "initialize" ->
             <<Runs("initialized", "always"),
               Returns("ok"),
               Calls("doInitialize", "always"),
               Returns("ok"),
               Calls("deinitialize", "always"),
               Runs("false", "always")>>
      [] fn = "doInitialize" ->
             <<Runs("doInitialize", "always"), Calls("translateRect", "enumerated")>>
      [] fn = "deinitialize" -> <<Runs("deinitialize", "always")>>
      [] fn = "contextExpired" -> <<Runs("contextExpired", "always")>>
      [] fn = "setup" ->
             <<Calls("contextExpired", "always"), Runs("touch", "ok")>>
      [] fn = "doDuplicateUnlocked" ->
             <<Calls("setup", "always"),
               Calls("ensureFrameCaptured", "always"),
               Calls("doDuplicateAll", "all"),
               Calls("doDuplicateOne", "one"),
               Runs("doDuplicateUnlocked", "always")>>
      [] fn = "ensureFrameCaptured" ->
             <<Calls("numFramesCaptured", "always"),
               Calls("desktopSize", "always"),
               Calls("doDuplicateAll", "always")>>
      [] fn = "selectedDesktopSize" ->
             <<Calls("desktopSize", "all"), Calls("screenRect", "one")>>
      [] OTHER -> <<Runs("touch", "always")>>

(* A frame of the call stack: the function, its next instruction, and
   whether its scoped_lock holds lock_. *)
Frame(fn) == [fn |-> fn, ip |-> 1, locked |-> FALSE]

InCall(t) == thread[t].stack # <<>>

Top(t) == thread[t].stack[Len(thread[t].stack)]

(* The frame is at its std::scoped_lock. *)
NeedsLock(f) == Acquires(f.fn) /\ ~f.locked

AtEnd(f) == f.ip > Len(Body(f.fn))

Instr(f) == Body(f.fn)[f.ip]

(* The condition of an instruction, on the locals l of the thread. *)
Cond(w, l) ==
    CASE w = "always" -> TRUE
      [] w = "ok" -> l.ret
      [] w = "failed" -> ~l.ret
      [] w = "zero" -> l.zero
      [] w = "enumerated" -> l.enumerated
      [] w = "all" -> l.monitor_id < 0
      [] w = "one" -> l.monitor_id >= 0

(* The thread is at an instruction of kind k whose condition holds. *)
At(t, k) ==
    /\ InCall(t)
    /\ ~NeedsLock(Top(t))
    /\ ~AtEnd(Top(t))
    /\ Instr(Top(t)).k = k
    /\ Cond(Instr(Top(t)).w, thread[t])

(* The locals with the top frame moved to its next instruction. *)
Advance(l) == [l EXCEPT !.stack[Len(l.stack)].ip = @ + 1]

(* The locals with the top frame popped. *)
Popped(l) ==
    IF Len(l.stack) = 1 THEN Outside
    ELSE [l EXCEPT !.stack = SubSeq(@, 1, Len(@) - 1)]

(* The frame returns now: it is past its last instruction or at a return
   whose condition holds. *)
Returning(f, l) ==
    IF AtEnd(f) THEN TRUE
    ELSE Instr(f).k = "return" /\ Cond(Instr(f).w, l)

(* The thread runs on by itself, passing over the instructions whose
   condition is false and returning from the frames that hold no lock, until
   it is at a scoped_lock, at a call, at statements, at the return of a
   frame that holds lock_, or outside. *)
RECURSIVE Settle(_)
Settle(l) ==
    IF l.stack = <<>> THEN l
    ELSE LET f == l.stack[Len(l.stack)]
         IN  IF NeedsLock(f) THEN l
             ELSE IF Returning(f, l)
             THEN IF f.locked THEN l ELSE Settle(Popped(l))
             ELSE IF ~Cond(Instr(f).w, l) THEN Settle(Advance(l))
             ELSE l

(* What the statements of a function work on. *)
Now(t) ==
    [c |-> Controller,
     succeeded |-> succeeded_duplications_,
     ctx |-> context,
     refcount |-> refcount_,
     holds |-> holds[t],
     l |-> thread[t]]

(* s after doInitialize() enumerated devices and answered r. *)
afterDoInitialize(s, r, devices) ==
    [s EXCEPT !.c = r.c, !.l.ret = r.ok, !.l.enumerated = devices # <<>>]

(* s after doDuplicateUnlocked() answered d. *)
afterDoDuplicateUnlocked(s, d) ==
    [s EXCEPT !.c.duplicators = d.dups, !.ctx = d.ctx, !.l.ret = d.ok]

(* The statements named a, run on s: the set of possible outcomes. *)
Effects(a, s) ==
    CASE a = "touch" -> {s}
      [] a = "incref" ->
             {[s EXCEPT !.refcount = @ + 1, !.holds = @ + 1]}
      [] a = "decref" ->
             {[s EXCEPT !.refcount = @ - 1, !.holds = @ - 1,
                        !.l.zero = (s.refcount - 1 = 0)]}
      [] a = "deinitialize" -> {[s EXCEPT !.c = deinitialize(s.c)]}
      [] a = "isChanged" ->
             {[s EXCEPT !.c.monitor = monitorAfterIsChanged(s.c.monitor),
                        !.l.ret = monitorIsChanged(
                                      [s.c.monitor EXCEPT !.changed = changed])]
                : changed \in BOOLEAN}
      [] a = "initialized" -> {[s EXCEPT !.l.ret = (s.c.duplicators # <<>>)]}
      [] a = "doInitialize" ->
             {o \in {afterDoInitialize(s, doInitialize(s.c, devices, hdc), devices)
                        : devices \in RaceDeviceLists, hdc \in RaceHdcAnswers}
                : o.c.identity <= MaxIdentity}
      [] a = "false" -> {[s EXCEPT !.l.ret = FALSE]}
      [] a = "prepare" -> {[s EXCEPT !.l.ret = prepared] : prepared \in BOOLEAN}
      [] a = "doDuplicateUnlocked" ->
             {o \in {afterDoDuplicateUnlocked(s, d)
                        : d \in doDuplicateUnlocked(s.c, s.ctx, s.l.monitor_id)}
                : countDuplication(s.succeeded, o.l.ret) <= MaxSucceeded}
      [] a = "count" ->
             {[s EXCEPT !.succeeded = countDuplication(s.succeeded, s.l.ret)]}
      [] a = "invalid" ->
             {[s EXCEPT !.l.ret =
                           (s.l.monitor_id >= screenCountUnlocked(s.c.duplicators))]}
      [] a = "contextExpired" ->
             {[s EXCEPT !.l.ret = contextExpired(s.ctx, s.c)]}
      [] a = "unregister" ->
             {[s EXCEPT !.c.duplicators = unregister(s.c, s.ctx).dups]}

RaceUnchanged ==
    UNCHANGED <<duplicators_, desktop_rect_, identity_, succeeded_duplications_,
                dpi_, d3d_info_, display_configuration_monitor_, refcount_, holds,
                context, gen_count, generations>>

(* A thread outside the controller calls a public operation: instance()
   hands out a scoped_refptr (addRef), the other operations go through one. *)
RaceCall(t) ==
    /\ ~InCall(t)
    /\ \E fn \in PublicOps :
         /\ IF fn = "addRef" THEN holds[t] = 0 ELSE holds[t] > 0
         /\ \E monitor_id \in (IF fn = "duplicateMonitor" THEN RaceMonitorIds
                               ELSE {-1}) :
              thread' = [thread EXCEPT
                            ![t] = Settle([Outside EXCEPT
                                              !.stack = <<Frame(fn)>>,
                                              !.monitor_id = monitor_id])]
    /\ RaceUnchanged
    /\ UNCHANGED <<lock_, pc, calls, last, warmup>>

(* std::scoped_lock lock(lock_): waits while a thread holds lock_.  Locking
   a std::mutex the thread already holds is undefined; the thread is stuck. *)
RaceLock(t) ==
    /\ InCall(t)
    /\ NeedsLock(Top(t))
    /\ lock_ = NoThread
    /\ lock_' = t
    /\ thread' = [thread EXCEPT
                    ![t] = Settle([thread[t] EXCEPT
                                      !.stack[Len(thread[t].stack)].locked = TRUE])]
    /\ RaceUnchanged
    /\ UNCHANGED <<pc, calls, last, warmup>>

(* A call pushes the frame of the callee. *)
RaceInvoke(t) ==
    /\ At(t, "call")
    /\ thread' = [thread EXCEPT
                    ![t] = Settle([Advance(thread[t]) EXCEPT
                                      !.stack = Append(@, Frame(Instr(Top(t)).a))])]
    /\ RaceUnchanged
    /\ UNCHANGED <<lock_, pc, calls, last, warmup>>

(* The statements of the function itself. *)
RaceRun(t) ==
    /\ At(t, "do")
    /\ \E o \in Effects(Instr(Top(t)).a, Now(t)) :
         /\ Commit(o.c)
         /\ succeeded_duplications_' = o.succeeded
         /\ context' = o.ctx
         /\ refcount_' = o.refcount
         /\ holds' = [holds EXCEPT ![t] = o.holds]
         /\ thread' = [thread EXCEPT ![t] = Settle(Advance(o.l))]
    /\ UNCHANGED <<lock_, pc, calls, last, warmup>>

(* The function that holds lock_ returns: its scoped_lock releases lock_. *)
RaceUnlock(t) ==
    /\ InCall(t)
    /\ Top(t).locked
    /\ Returning(Top(t), thread[t])
    /\ lock_' = NoThread
    /\ thread' = [thread EXCEPT ![t] = Settle(Popped(thread[t]))]
    /\ RaceUnchanged
    /\ UNCHANGED <<pc, calls, last, warmup>>

(* One step of thread t inside the controller. *)
RaceStep(t) ==
    \/ RaceLock(t)
    \/ RaceInvoke(t)
    \/ RaceRun(t)
    \/ RaceUnlock(t)

NextRace ==
    \/ \E t \in Threads : RaceCall(t)
    \/ \E t \in Threads : RaceLock(t)
    \/ \E t \in Threads : RaceInvoke(t)
    \/ \E t \in Threads : RaceRun(t)
    \/ \E t \in Threads : RaceUnlock(t)

SpecRace == Init /\ [][NextRace]_vars

-----------------------------------------------------------------------------
(* Vocabulary of the properties *)

CaptureOps == {"duplicate", "duplicateMonitor"}

QueryOps == {"isSupported", "retrieveD3dInfo", "dpi", "screenCount", "deviceNames"}

(* The adapter instances of a list, in order. *)
Insts(dups) == [i \in DOMAIN dups |-> dups[i].inst]

NoDuplicates(seq) ==
    \A i, j \in DOMAIN seq : i # j => seq[i] # seq[j]

(* The controller state of the next state. *)
ControllerNext ==
    [duplicators |-> duplicators_',
     desktop_rect |-> desktop_rect_',
     identity |-> identity_',
     dpi |-> dpi_',
     d3d_info |-> d3d_info_',
     monitor |-> display_configuration_monitor_',
     gen_count |-> gen_count',
     generations |-> generations']

-----------------------------------------------------------------------------
(* C1: whenever a duplicate/duplicateMonitor call has returned
   DuplicationFailed, the adapter list is empty and desktop_rect_ is empty
   at the moment it returns. *)
C1_DuplicationFailedTearsDown ==
    (last.op \in CaptureOps /\ last.result = "DuplicationFailed")
        => (duplicators_ = <<>> /\ isEmpty(desktop_rect_))

(* A capture of a valid target on an initialized controller failed in an
   adapter and returned DuplicationFailed. *)
C1_Witness ==
    /\ last.op = "duplicateMonitor"
    /\ last.result = "DuplicationFailed"
    /\ last.adapter_failed
    /\ last.init = "none"

(* C2: on an initialized controller with no pending display change,
   duplicateMonitor with monitor_id >= screenCount() and a frame that
   prepares returns InvalidMonitorId and tears nothing down: the adapter
   list, desktop_rect_ and identity_ are as at call entry. *)
C2_InvalidMonitorIdNoTeardown ==
    [][(/\ last'.op = "duplicateMonitor"
        /\ duplicators_ # <<>>
        /\ ~monitorIsChanged(display_configuration_monitor_)
        /\ last'.monitor_id >= screenCountUnlocked(duplicators_)
        /\ last'.prepared)
       => (/\ last'.result = "InvalidMonitorId"
           /\ Insts(duplicators_') = Insts(duplicators_)
           /\ desktop_rect_' = desktop_rect_
           /\ identity_' = identity_)]_vars

(* duplicateMonitor with an id past the last screen returned InvalidMonitorId
   although the warm-up of that call hit a failing adapter. *)
C2_Witness ==
    /\ last.op = "duplicateMonitor"
    /\ last.result = "InvalidMonitorId"
    /\ last.init = "none"
    /\ ~last.changed
    /\ last.adapter_failed
    /\ duplicators_ # <<>>
    /\ last.monitor_id >= screenCountUnlocked(duplicators_)

(* C3: succeeded_duplications_ never decreases, grows by exactly 1 in a
   capture that returns Succeeded and is unchanged by every other call. *)
C3_SucceededCountsSuccesses ==
    [][/\ succeeded_duplications_' >= succeeded_duplications_
       /\ (last'.op \in CaptureOps /\ last'.result = "Succeeded")
             => succeeded_duplications_' = succeeded_duplications_ + 1
       /\ ~(last'.op \in CaptureOps /\ last'.result = "Succeeded")
             => succeeded_duplications_' = succeeded_duplications_]_vars

(* A capture that failed after an earlier one had succeeded. *)
C3_Witness ==
    /\ last.op \in CaptureOps
    /\ last.result = "DuplicationFailed"
    /\ succeeded_duplications_ = 1

(* C4: UnsupportedSession is returned only by a call that was entered with
   succeeded_duplications_ = 0, whose initialization failed and whose session
   probe answers false; after a Succeeded capture every initialization
   failure returns InitializationFailed, whatever the probe answers. *)
C4_UnsupportedSessionOnlyBeforeFirstSuccess ==
    [][/\ (last'.op \in CaptureOps /\ last'.result = "UnsupportedSession")
             => (/\ succeeded_duplications_ = 0
                 /\ last'.init = "failed"
                 /\ ~last'.session)
       /\ (/\ last'.op \in CaptureOps
           /\ last'.init = "failed"
           /\ succeeded_duplications_ > 0)
             => last'.result = "InitializationFailed"]_vars

(* An initialization failure in session 0 after a successful capture. *)
C4_Witness ==
    /\ last.op \in CaptureOps
    /\ last.init = "failed"
    /\ ~last.session
    /\ succeeded_duplications_ > 0
    /\ last.result = "InitializationFailed"

(* C5: identity_ never decreases, is strictly greater after every successful
   (re)initialization, is > 0 while the adapter list is non-empty, and no two
   generations with adapters share an identity_ value. *)
C5_IdentityMonotonic ==
    [][/\ identity_' >= identity_
       /\ last'.init = "ok" => identity_' > identity_
       /\ duplicators_' # <<>> => identity_' > 0
       /\ NoDuplicates(generations')]_vars

(* The second generation of adapters has been built. *)
C5_Witness ==
    /\ Len(generations) = 2
    /\ last.init = "ok"
    /\ duplicators_ # <<>>

(* C6: every duplicate, duplicateMonitor or unregister call the controller
   makes to an adapter hands it a sub-context that this same adapter instance
   has set up; no sub-context reaches an adapter of another generation. *)
C6_SubContextsStayWithTheirAdapter ==
    \A i \in DOMAIN calls :
        calls[i].fn \in {"duplicate", "duplicateMonitor", "unregister"}
            => calls[i].sub = calls[i].inst

(* A Context that had served a successful capture under the first generation
   was rebuilt on, and then handed to, the adapters of the second one. *)
C6_Witness ==
    /\ last.op \in CaptureOps
    /\ last.result # "Succeeded"
    /\ succeeded_duplications_ = 1
    /\ \E i \in DOMAIN calls :
          calls[i].fn = "setup" /\ calls[i].inst[1] = 2
    /\ \E i \in DOMAIN calls :
          calls[i].fn \in {"duplicate", "duplicateMonitor"} /\ calls[i].inst[1] = 2

(* C7: unregister() of an expired Context makes no adapter call and changes
   nothing, and a second unregister() right after the first leaves the
   adapters as the first left them. *)
C7_UnregisterExpiredNoOpAndIdempotent ==
    [][last'.op = "unregister"
       => (/\ (\/ context.controller_id # identity_
               \/ Len(context.contexts) # Len(duplicators_))
                 => (/\ calls' = <<>>
                     /\ duplicators_' = duplicators_)
           /\ context' = context
           /\ ControllerNext = [Controller EXCEPT !.duplicators = duplicators_']
           /\ unregister(ControllerNext, context').dups = duplicators_')]_vars

(* unregister() was called with a Context of the previous generation while
   the adapters of the current one hold no registration of it. *)
C7_Witness ==
    /\ last.op = "unregister"
    /\ duplicators_ # <<>>
    /\ context.contexts # <<>>
    /\ context.controller_id # identity_
    /\ Len(context.contexts) = Len(duplicators_)

(* C8: desktop_rect_ is empty iff there are no adapters; with adapters its
   top-left is (0,0), it is the union of the adapters' desktop rectangles,
   and every adapter was moved by the same offset, (0,0) minus the top-left
   of the union of their original rectangles. *)
C8_DesktopRectIsTranslatedUnion ==
    LET n == Len(duplicators_)
        original == unitedAll([i \in 1..n |-> duplicators_[i].original_rect])
        offset == [x |-> 0 - original.x, y |-> 0 - original.y]
    IN  /\ isEmpty(desktop_rect_) <=> duplicators_ = <<>>
        /\ duplicators_ # <<>> =>
             /\ topLeft(desktop_rect_) = [x |-> 0, y |-> 0]
             /\ desktop_rect_ =
                    unitedAll([i \in 1..n |-> duplicators_[i].desktop_rect])
             /\ \A i \in 1..n :
                    /\ duplicators_[i].desktop_rect =
                           translated(duplicators_[i].original_rect, offset)
                    /\ \A k \in DOMAIN duplicators_[i].screens :
                           duplicators_[i].screens[k].x >= 0

(* Adapters at (-1920,0,1920,1080) and (0,0,1920,1080) were moved by (1920,0)
   and the desktop is (0,0,3840,1080). *)
C8_Witness ==
    /\ Len(duplicators_) = 2
    /\ duplicators_[1].original_rect = Rect(-1920, 0, 1920, 1080)
    /\ duplicators_[2].original_rect = Rect(0, 0, 1920, 1080)
    /\ duplicators_[1].desktop_rect = Rect(0, 0, 1920, 1080)
    /\ duplicators_[2].desktop_rect = Rect(1920, 0, 1920, 1080)
    /\ desktop_rect_ = Rect(0, 0, 3840, 1080)

(* C9: the release() that takes refcount_ from 1 to 0 goes on to unload();
   after it the adapter list and desktop_rect_ are empty and the display
   monitor is reset, identity_ and succeeded_duplications_ are as before, and
   a Context set up earlier is expired. *)
C9_LastReleaseTearsDownKeepsIdentity ==
    [][/\ (last'.op = "release" /\ refcount_ = 1)
             => (refcount_' = 0 /\ \E t \in Threads : pc'[t] = "unload")
       /\ last'.op = "releaseUnload"
             => (/\ duplicators_' = <<>>
                 /\ isEmpty(desktop_rect_')
                 /\ ~display_configuration_monitor_'.initialized
                 /\ identity_' = identity_
                 /\ succeeded_duplications_' = succeeded_duplications_
                 /\ context' = context
                 /\ context'.contexts # <<>>
                       => (\/ context'.controller_id # identity_'
                           \/ Len(context'.contexts) # Len(duplicators_')))]_vars

(* The last reference was released while adapters existed and the caller's
   Context was set up against them. *)
C9_Witness ==
    /\ last.op = "releaseUnload"
    /\ refcount_ = 0
    /\ identity_ > 0
    /\ context.controller_id = identity_
    /\ context.contexts # <<>>
    /\ succeeded_duplications_ > 0

(* C10: when the display-change poll of a duplicate() answers true and the
   devices, the frame and the adapters then work, the call rebuilds the
   adapters, identity_ grows by exactly 1, the caller's Context of the old
   identity is rebuilt (controller_id = identity_, one sub-context per
   adapter, set up on the new adapters) and the call returns Succeeded. *)
C10_DisplayChangeRebuildsAndSucceeds ==
    [][(/\ last'.op = "duplicate"
        /\ last'.changed
        /\ last'.init # "failed"
        /\ last'.prepared
        /\ ~last'.adapter_failed
        /\ ~last'.timed_out)
       => (/\ last'.result = "Succeeded"
           /\ identity_' = identity_ + 1
           /\ duplicators_' # <<>>
           /\ \A i \in DOMAIN duplicators_' :
                 /\ duplicators_'[i].inst \notin
                        {duplicators_[k].inst : k \in DOMAIN duplicators_}
                 /\ context'.contexts[i].inst = duplicators_'[i].inst
           /\ context'.controller_id = identity_'
           /\ Len(context'.contexts) = Len(duplicators_'))]_vars

(* The second of two duplicate() calls saw a display change: identity_ went
   from 1 to 2 and the call succeeded with the rebuilt Context. *)
C10_Witness ==
    /\ last.op = "duplicate"
    /\ last.changed
    /\ last.result = "Succeeded"
    /\ identity_ = 2
    /\ context.controller_id = 2
    /\ succeeded_duplications_ = 1

(* The positions, in enumeration order, of the devices whose adapter
   duplicator initializes. *)
Usable(devices) == {n \in DOMAIN devices : devices[n].init_ok}

(* The monitors of the usable devices among devices[1..n]. *)
RECURSIVE UsableScreens(_, _)
UsableScreens(devices, n) ==
    IF n = 0 THEN 0
    ELSE UsableScreens(devices, n - 1)
         + (IF devices[n].init_ok THEN Len(devices[n].screens) ELSE 0)

(* C11: an initialization attempt succeeds iff the adapter duplicator of at
   least one enumerated device initializes; after a successful one the adapter
   list holds exactly the adapters of the devices that initialized, each built
   from its device, in enumeration order, also when a device before them
   failed; screenCount() is then the number of monitors of those devices. *)
C11_InitializeKeepsUsableAdapters ==
    last.init # "none"
    => LET devices == last.devices
           n == Len(duplicators_)
       IN  /\ (last.init = "ok") <=> (Usable(devices) # {})
           /\ (/\ last.init = "ok"
               /\ ~(last.op \in CaptureOps
                    /\ last.result = "DuplicationFailed"))
                 => (/\ n = Cardinality(Usable(devices))
                     /\ {duplicators_[i].inst[2] : i \in 1..n} = Usable(devices)
                     /\ \A i, j \in 1..n :
                           i < j => duplicators_[i].inst[2]
                                        < duplicators_[j].inst[2]
                     /\ \A i \in 1..n :
                           duplicators_[i].original_rect =
                               unitedAll(devices[duplicators_[i].inst[2]].screens)
                     /\ screenCountUnlocked(duplicators_)
                            = UsableScreens(devices, Len(devices)))
           /\ (last.init = "ok" /\ last.op = "screenCount")
                 => last.result = UsableScreens(devices, Len(devices))

(* screenCount() initialized the controller from a virtual device that cannot
   duplicate followed by a device with two monitors, and answered 2. *)
C11_Witness ==
    /\ last.op = "screenCount"
    /\ last.init = "ok"
    /\ Len(last.devices) = 2
    /\ ~last.devices[1].init_ok
    /\ last.devices[2].init_ok
    /\ Len(duplicators_) = 1
    /\ last.result = 2

(* The monitors of a list of adapters as pairs <<adapter position, index
   inside the adapter>>, the index counted from 0. *)
Monitors(dups) ==
    UNION {{<<i, j>> : j \in 0..(Len(dups[i].screens) - 1)} : i \in DOMAIN dups}

(* The number of monitors of the adapters before position i. *)
MonitorsBefore(dups, i) == Cardinality({p \in Monitors(dups) : p[1] < i})

(* The monitors that virtual monitor id m names: one when m is valid. *)
Locate(dups, m) == {p \in Monitors(dups) : m = MonitorsBefore(dups, p[1]) + p[2]}

(* C12: duplicateMonitor(m) makes at most one per-monitor call; with
   0 <= m < screenCount(), once the frame is prepared and the warm-up has
   passed, it makes exactly one, to the adapter i and the index j with
   m = (monitors of the adapters before i) + j and 0 <= j < monitors of i,
   and on Succeeded the frame's top-left is the origin of monitor j of
   adapter i; screenRect(m) and selectedDesktopSize(m) are the rectangle and
   the size of that same monitor. *)
C12_MonitorIdResolvesToAdapterAndIndex ==
    /\ (last.op = "duplicateMonitor" /\ last.prepared)
         => LET m == last.monitor_id
                lay == last.layout
                sent == {k \in DOMAIN calls : calls[k].fn = "duplicateMonitor"}
            IN  /\ Cardinality(sent) <= 1
                /\ (last.warmed /\ m < Cardinality(Monitors(lay)))
                      => Cardinality(sent) = 1
                /\ last.result = "Succeeded" => sent # {}
                /\ \A k \in sent :
                      \E p \in Locate(lay, m) :
                         /\ Cardinality(Locate(lay, m)) = 1
                         /\ calls[k].inst = lay[p[1]].inst
                         /\ calls[k].idx = p[2]
                         /\ last.result = "Succeeded"
                               => last.top_left =
                                      topLeft(lay[p[1]].screens[p[2] + 1])
    /\ \A m \in MonitorIds :
          m < Cardinality(Monitors(duplicators_))
            => \E p \in Locate(duplicators_, m) :
                  LET rect == duplicators_[p[1]].screens[p[2] + 1]
                  IN  /\ screenRect(duplicators_, m) = rect
                      /\ selectedDesktopSize(Controller, m)
                             = <<rect.w, rect.h>>

(* duplicateMonitor(1) on adapters with one monitor each went to index 0 of
   the second adapter and set the frame's top-left to (1920, 0). *)
C12_Witness ==
    /\ last.op = "duplicateMonitor"
    /\ last.monitor_id = 1
    /\ last.result = "Succeeded"
    /\ Len(duplicators_) = 2
    /\ \E k \in DOMAIN calls :
          /\ calls[k].fn = "duplicateMonitor"
          /\ calls[k].inst = duplicators_[2].inst
          /\ calls[k].idx = 0
    /\ last.top_left = [x |-> 1920, y |-> 0]

(* C13: in every state deviceNamesUnlocked() gives as many names as
   screenCountUnlocked() counts, the name of virtual monitor m at position m
   (adapters in enumeration order, then the index inside the adapter);
   deviceNames() and screenCount() return exactly that, and false with no
   name, and 0, when their initialization fails. *)
C13_DeviceNamesMatchScreenCount ==
    LET names == deviceNamesUnlocked(duplicators_)
        count == Cardinality(Monitors(duplicators_))
    IN  /\ Len(names) = screenCountUnlocked(duplicators_)
        /\ Len(names) = count
        /\ \A m \in 0..(count - 1) :
              \E p \in Locate(duplicators_, m) :
                 names[m + 1] = <<duplicators_[p[1]].inst, p[2]>>
        /\ last.op = "deviceNames"
              => /\ last.result.ok <=> (last.init # "failed")
                 /\ last.result.ok => last.result.names = names
                 /\ ~last.result.ok => last.result.names = <<>>
        /\ last.op = "screenCount"
              => /\ last.init = "failed" => last.result = 0
                 /\ last.init # "failed"
                       => (last.result = Len(names) /\ last.result > 0)

(* deviceNames() returned the names of the two monitors of one adapter after
   a device before it had failed to initialize. *)
C13_Witness ==
    /\ last.op = "deviceNames"
    /\ last.result.ok
    /\ Len(last.result.names) = 2
    /\ Len(duplicators_) = 1
    /\ last.result.names[2] = <<duplicators_[1].inst, 1>>

(* C14: retrieveD3dInfo() whose initialization fails returns false together
   with the feature levels the most recent successful initialization
   recorded.  Stated for the call that follows a capture that returned
   DuplicationFailed: that capture ran on initialized adapters and tore them
   down without writing d3d_info_, so d3d_info_ then holds what the most
   recent successful initialization recorded. *)
C14_FailedInitReturnsLastKnownInfo ==
    [][(/\ last.op \in CaptureOps
        /\ last.result = "DuplicationFailed"
        /\ last'.op = "retrieveD3dInfo"
        /\ last'.init = "failed")
       => (/\ ~last'.result.ok
           /\ last'.result.info = d3d_info_)]_vars

(* C15 as claimed: a capture that returns FramePreparationFailed leaves the
   adapter list, desktop_rect_, identity_ and succeeded_duplications_ as they
   were at call entry, makes no adapter call and does not modify the caller's
   Context. *)
C15_FramePreparationFailedUntouched ==
    [][(last'.op \in CaptureOps /\ last'.result = "FramePreparationFailed")
       => (/\ duplicators_' = duplicators_
           /\ desktop_rect_' = desktop_rect_
           /\ identity_' = identity_
           /\ succeeded_duplications_' = succeeded_duplications_
           /\ calls' = <<>>
           /\ context' = context)]_vars

(* C15 amended: a capture that returns FramePreparationFailed leaves
   succeeded_duplications_ and the caller's Context as they were and makes no
   adapter call; the adapter list, desktop_rect_ and identity_ are as at call
   entry when the controller was initialized at entry and no display change
   was pending; otherwise the call has built a new generation of adapters
   before the frame was prepared, identity_ is one more than at entry and the
   new adapters have neither been set up nor captured anything. *)
C15_FramePreparationFailedOnlyInitializes ==
    [][(last'.op \in CaptureOps /\ last'.result = "FramePreparationFailed")
       => (/\ succeeded_duplications_' = succeeded_duplications_
           /\ calls' = <<>>
           /\ context' = context
           /\ (duplicators_ # <<>>
                   /\ ~monitorIsChanged(display_configuration_monitor_))
                 => (/\ duplicators_' = duplicators_
                     /\ desktop_rect_' = desktop_rect_
                     /\ identity_' = identity_
                     /\ last'.init = "none")
           /\ (duplicators_ = <<>>
                   \/ monitorIsChanged(display_configuration_monitor_))
                 => (/\ last'.init = "ok"
                     /\ identity_' = identity_ + 1
                     /\ duplicators_' # <<>>
                     /\ ~isEmpty(desktop_rect_')
                     /\ \A i \in DOMAIN duplicators_' :
                           /\ duplicators_'[i].inst \notin
                                  {duplicators_[k].inst : k \in DOMAIN duplicators_}
                           /\ duplicators_'[i].frames = 0
                           /\ ~duplicators_'[i].registered))]_vars

(* A capture saw a display change, rebuilt the adapters as generation 2 and
   then failed to prepare the frame; the caller's Context is still the one
   set up for generation 1. *)
C15_Witness ==
    /\ last.op \in CaptureOps
    /\ last.result = "FramePreparationFailed"
    /\ last.changed
    /\ last.init = "ok"
    /\ identity_ = 2
    /\ context.controller_id = 1
    /\ context.contexts # <<>>
    /\ duplicators_ # <<>>

(* C16: an initialization in which GetDC() fails, and every step that does
   not query the DPI, leaves dpi_ as it was, so dpi_ is the answer of the last
   query that succeeded; a query that succeeds stores its answer.  dpi()
   returns (0,0) when its initialization fails and dpi_ otherwise. *)
C16_DpiKeptWhenQueryFails ==
    [][/\ last'.hdc = 0 => (last'.init # "none" /\ dpi_' = dpi_)
       /\ last'.hdc = NoHdc => dpi_' = dpi_
       /\ last'.hdc \notin {0, NoHdc} => dpi_' = last'.hdc
       /\ last'.op = "dpi"
             => last'.result = (IF last'.init = "failed" THEN 0 ELSE dpi_')]_vars

(* dpi() rebuilt the adapters while GetDC() failed and returned the 96 that
   an earlier initialization had stored. *)
C16_Witness ==
    /\ last.op = "dpi"
    /\ last.init = "ok"
    /\ last.hdc = 0
    /\ dpi_ = 96
    /\ last.result = 96
    /\ identity_ = 2

(* C17 as claimed: a capture whose warm-up fails (an adapter duplicate
   returned false during it, or the deadline passed) returns
   DuplicationFailed and has deinitialized the controller, whatever monitor
   id was requested. *)
C17_WarmUpFailureAlwaysTearsDown ==
    (last.op \in CaptureOps /\ last.prepared /\ ~last.warmed)
    => (/\ last.result = "DuplicationFailed"
        /\ duplicators_ = <<>>
        /\ isEmpty(desktop_rect_))

(* C17 amended: a capture whose warm-up fails dispatches no capture of its
   own; for the entire desktop and for a monitor id below screenCount() it
   returns DuplicationFailed and has deinitialized the controller; for a
   monitor id >= screenCount() it returns InvalidMonitorId and the adapters
   and desktop_rect_ stay. *)
C17_WarmUpFailureTearsDownValidTargets ==
    (last.op \in CaptureOps /\ last.prepared /\ ~last.warmed)
    => (/\ last.adapter_failed \/ last.timed_out
        /\ \A k \in DOMAIN calls :
              calls[k].fn \in {"setup", "duplicate"}
        /\ last.monitor_id < Cardinality(Monitors(last.layout))
              => (/\ last.result = "DuplicationFailed"
                  /\ duplicators_ = <<>>
                  /\ isEmpty(desktop_rect_)
                  /\ ~display_configuration_monitor_.initialized)
        /\ last.monitor_id >= Cardinality(Monitors(last.layout))
              => (/\ last.result = "InvalidMonitorId"
                  /\ Layout(duplicators_) = last.layout
                  /\ duplicators_ # <<>>
                  /\ ~isEmpty(desktop_rect_)))

(* The warm-up of duplicateMonitor(1) ran out of time without a failing
   adapter; the call returned DuplicationFailed and the adapters are gone. *)
C17_Witness ==
    /\ last.op = "duplicateMonitor"
    /\ last.monitor_id = 1
    /\ last.prepared
    /\ ~last.warmed
    /\ last.timed_out
    /\ ~last.adapter_failed
    /\ last.result = "DuplicationFailed"
    /\ duplicators_ = <<>>

(* The setup calls of the last operation; they come first. *)
SetupCalls(cs) == Cardinality({k \in DOMAIN cs : cs[k].fn = "setup"})

(* C18: in a capture whose frame is prepared, the calls of the warm-up are
   full-desktop duplicate calls only, made round after round over all
   adapters in order, also for a single-monitor request; the warm-up makes no
   call when every adapter had already captured a frame at entry and at
   least one otherwise; the requested capture is dispatched only after the
   warm-up has returned with every adapter at frames_to_skip frames or more;
   and after Succeeded every adapter has captured at least one frame. *)
C18_WarmUpGatesOnEveryAdapter ==
    (last.op \in CaptureOps /\ last.prepared)
       => LET n == Len(last.layout)
              first == SetupCalls(calls) + 1
              warm_end == IF last.warmed THEN last.warm_calls ELSE Len(calls)
          IN  /\ n > 0
              /\ \A k \in first..warm_end :
                    /\ calls[k].fn = "duplicate"
                    /\ calls[k].inst = last.layout[((k - first) % n) + 1].inst
              /\ last.warm_entry => (last.warmed /\ warm_end = first - 1)
              /\ ~last.warm_entry => warm_end >= first
              /\ \A k \in (warm_end + 1)..Len(calls) :
                    /\ last.warmed
                    /\ calls[k].fn = (IF last.monitor_id < 0 THEN "duplicate"
                                      ELSE "duplicateMonitor")
              /\ last.warmed
                    => (/\ Len(last.warm_frames) = n
                        /\ \A i \in 1..n :
                              last.warm_frames[i] >= frames_to_skip)
              /\ last.result = "Succeeded"
                    => (/\ last.warmed
                        /\ Len(duplicators_) = n
                        /\ \A i \in 1..n : duplicators_[i].frames >= 1)

(* A single-monitor capture on two fresh adapters needed two rounds of
   full-desktop duplication, the second adapter being stale in the first,
   before it was dispatched and succeeded. *)
C18_Witness ==
    /\ last.op = "duplicateMonitor"
    /\ last.result = "Succeeded"
    /\ last.init = "ok"
    /\ Len(duplicators_) = 2
    /\ last.warm_calls - SetupCalls(calls) = 4
    /\ Len(calls) = last.warm_calls + 1
    /\ calls[Len(calls)].fn = "duplicateMonitor"

(* C19: ensureFrameCaptured() returns, every round of its loop taking some
   time; it returns true only when every adapter has captured frames_to_skip
   frames and no deadline test found more than timeout_ms elapsed; it returns
   false only on an adapter duplicate that failed, which ends the loop at
   once, or when more than timeout_ms had elapsed after a round; every sleep
   between two frames lasts between 0 and ms_per_frame milliseconds. *)
C19_WarmUpTerminates ==
    /\ <>(warmup.pc = "returned")
    /\ [](warmup.pc = "returned"
            => /\ warmup.w.ok
                    => (/\ \A i \in DOMAIN warmup.w.dups :
                              warmup.w.dups[i].frames >= frames_to_skip
                        /\ warmup.elapsed <= timeout_ms
                        /\ ~warmup.w.timed_out
                        /\ ~warmup.w.adapter_failed)
               /\ ~warmup.w.ok
                    => (/\ warmup.rounds > 0
                        /\ warmup.w.adapter_failed \/ warmup.w.timed_out
                        /\ warmup.w.timed_out => warmup.elapsed > timeout_ms
                        /\ warmup.w.adapter_failed
                              => ~warmup.w.timed_out)
               /\ \A k \in DOMAIN warmup.sleeps :
                     warmup.sleeps[k] >= 0 /\ warmup.sleeps[k] <= ms_per_frame)
    /\ [](warmup.pc = "loop"
            => (warmup.elapsed <= timeout_ms /\ ~warmup.w.adapter_failed))

(* The loop ran three rounds on two adapters of which one stayed stale, and
   returned false once 600 ms had elapsed. *)
C19_Witness ==
    /\ warmup.pc = "returned"
    /\ ~warmup.w.ok
    /\ warmup.w.timed_out
    /\ warmup.rounds = 3
    /\ warmup.elapsed = 600
    /\ Len(warmup.w.dups) = 2

(* C20: after an initialization attempt that found devices of which no
   adapter duplicator initialized, the adapter list and desktop_rect_ are
   empty and d3d_info_ holds no feature level recorded during that attempt. *)
C20_FailedInitCleansFeatureLevels ==
    [][(last'.init = "failed" /\ last'.devices # <<>>)
       => LET recorded == {last'.devices[n].feature_level :
                              n \in DOMAIN last'.devices}
          IN  /\ duplicators_' = <<>>
              /\ isEmpty(desktop_rect_')
              /\ d3d_info_'.min_feature_level \notin recorded
              /\ d3d_info_'.max_feature_level \notin recorded]_vars

(* C21: identity_ changes only through a successful initialization, so in
   every state it equals the number of successful initializations so far
   (generations holds one entry per successful doInitialize()); a failed
   attempt, with or without devices, leaves it as it was. *)
C21_IdentityCountsSuccessfulInits ==
    identity_ = Len(generations)

(* The frames of thread t that have passed their scoped_lock, if any. *)
Entered(t) ==
    {i \in DOMAIN thread[t].stack : ~NeedsLock(thread[t].stack[i])}

(* The frames of thread t whose scoped_lock holds lock_. *)
LockedFrames(t) ==
    {i \in DOMAIN thread[t].stack : thread[t].stack[i].locked}

(* Thread t can take a step inside the controller: lock_ is free at its
   scoped_lock, or it is at a call, at statements that have an outcome, or
   at the return of the function that holds lock_. *)
CanStep(t) ==
    /\ InCall(t)
    /\ IF NeedsLock(Top(t)) THEN lock_ = NoThread
       ELSE IF Returning(Top(t), thread[t]) THEN Top(t).locked
       ELSE IF At(t, "do") THEN Effects(Instr(Top(t)).a, Now(t)) # {}
       ELSE At(t, "call")

(* C22: with threads calling the public operations at the same time, no
   thread comes to a scoped_lock while it holds lock_ itself; a thread holds
   lock_ exactly while one function that took it is on its call stack, so
   not after the operation returned; every function that reads or writes
   duplicators_, desktop_rect_, identity_ or succeeded_duplications_ runs
   with lock_ held by its thread; and every thread inside an operation can
   take a step, or waits for lock_ while the thread that holds it can. *)
C22_SingleLockNeverNested ==
    /\ lock_ \in Threads \cup {NoThread}
    /\ \A t \in Threads :
         /\ ~(InCall(t) /\ NeedsLock(Top(t)) /\ lock_ = t)
         /\ lock_ = t <=> LockedFrames(t) # {}
         /\ Cardinality(LockedFrames(t)) <= 1
         /\ \A i \in Entered(t) :
               Accesses(thread[t].stack[i].fn) # {} => lock_ = t
         /\ InCall(t) =>
               \/ CanStep(t)
               \/ /\ NeedsLock(Top(t))
                  /\ lock_ \in Threads \ {t}
                  /\ CanStep(lock_)

(* One thread is in deinitialize(), called by unload() from release(), and
   holds lock_; the other has called duplicate() and waits at the
   scoped_lock of doDuplicate(). *)
C22_Witness ==
    \E t \in Threads, u \in Threads :
      /\ t # u
      /\ lock_ = t
      /\ Len(thread[t].stack) = 3
      /\ thread[t].stack[1].fn = "release"
      /\ thread[t].stack[2].fn = "unload"
      /\ Top(t).fn = "deinitialize"
      /\ InCall(u)
      /\ Top(u).fn = "doDuplicate"
      /\ NeedsLock(Top(u))
      /\ ~CanStep(u)

(* C23: whenever the unload() of a release() that took refcount_ to zero is
   about to run deinitialize(), refcount_ is still zero; so no adapter that
   serves a thread holding a reference is destroyed by it. *)
C23_TeardownOnlyWhileRefcountZero ==
    \A t \in Threads :
      (/\ InCall(t)
       /\ thread[t].stack[1].fn = "release"
       /\ Top(t).fn = "deinitialize")
          => refcount_ = 0

====
